---- MODULE Spec2Model ----
(***************************************************************************)
(* Orders page of ds-task-app: the route loader and action that fetch one  *)
(* page of orders (app/routes/app.orders.jsx), the fixed GraphQL document  *)
(* they send (app/graphql/queries/index.js) and the OrdersPage component   *)
(* that accumulates pages, keeps the selection and dispatches CSV export,  *)
(* the CSV export functions (app/utils/csvExport.js), the status badges    *)
(* (app/utils/badges.jsx) and the startup script that sets up the database *)
(* and launches the application.                                           *)
(*                                                                         *)
(* Conventions.  An order edge is represented by its node id, a positive   *)
(* integer that is also its position in the shop's order list; the cursor  *)
(* of an edge is that same number and the null cursor is NoCursor.  A      *)
(* JavaScript string that the code inspects (an error message) is a        *)
(* sequence of text fragments.  An optional value (undefined / present) is *)
(* the empty sequence or a one-element sequence.                           *)
(***************************************************************************)
EXTENDS Integers, Sequences, FiniteSets, TLC

(***************************************************************************)
(* Bounds of the model.                                                    *)
(***************************************************************************)
\* a shop with a few orders (fewer than one page)
SmallStore == 3
\* a shop with more orders than one executed page
LargeStore == 12
\* load-more submissions per page visit
MaxLoads == 2
\* rows whose checkbox / View Details button the user operates (ids 1..MaxRow);
\* Select All reaches every row
MaxRow == 1
\* orders passed to one call of an export function
MaxExported == 2
\* order ids an export function is called with (1..MaxOrderId)
MaxOrderId == 15
\* fragments of a field value passed to the field escaper
MaxField == 3

(***************************************************************************)
(* Program constants.                                                      *)
(***************************************************************************)
\* orders(first: 10) in the GraphQL document
QueryFirst == 10
\* variables: { first: 5, after: null } in the loader
LoaderFirst == 5
\* error.status === 302
RedirectStatus == 302
\* after: null
NoCursor == 0

Min(a, b) == IF a < b THEN a ELSE b

StoreSizes == {0, SmallStore, LargeStore}

(***************************************************************************)
(* Text.                                                                   *)
(***************************************************************************)
\* String.prototype.includes on a message made of fragments
Includes(message, fragment) == \E i \in 1..Len(message) : message[i] = fragment

\* bodies / error payloads the API may answer with
Texts == { <<"Internal Server Error">>, <<"too many ", "redirect", "s">> }

\* HTTP statuses of a response that is not ok
ErrorStatuses == {500}

DigitValue(c) ==
  CASE c = "0" -> 0 [] c = "1" -> 1 [] c = "2" -> 2 [] c = "3" -> 3 [] c = "4" -> 4
    [] c = "5" -> 5 [] c = "6" -> 6 [] c = "7" -> 7 [] c = "8" -> 8 [] c = "9" -> 9

RECURSIVE parseInt(_)
\* parseInt of a string of decimal digits (a sequence of digit characters)
parseInt(s) ==
  IF s = <<>> THEN 0 ELSE 10 * parseInt(SubSeq(s, 1, Len(s) - 1)) + DigitValue(s[Len(s)])

(***************************************************************************)
(* The order API executing a document.                                     *)
(***************************************************************************)
\* pageInfo: {} of a failed or empty result; hasNextPage / endCursor undefined
EmptyPageInfo == [defined |-> FALSE, hasNextPage |-> FALSE, endCursor |-> NoCursor]

\* the document: orders(first: 10), no operation variables declared
GET_ORDERS == [declared |-> {}, first |-> QueryFirst, after |-> NoCursor]

\* the pagination arguments the API executes: a declared variable takes the
\* value passed, anything else is the literal written in the document
ExecutedArgs(doc, variables) ==
  [first |-> IF "first" \in doc.declared THEN variables.first ELSE doc.first,
   after |-> IF "after" \in doc.declared THEN variables.after ELSE doc.after]

\* the edges that follow cursor `after`, at most `first` of them
PageEdges(st, first, after) ==
  [i \in 1..(Min(st, after + first) - after) |-> after + i]

PagePageInfo(st, first, after) ==
  LET edges == PageEdges(st, first, after)
  IN  [defined     |-> TRUE,
       hasNextPage |-> after + first < st,
       endCursor   |-> IF edges = <<>> THEN NoCursor ELSE edges[Len(edges)]]

\* admin.graphql(doc, {variables}) answered from a shop of st orders
ExecuteQuery(doc, variables, st) ==
  LET args == ExecutedArgs(doc, variables)
  IN  [orders   |-> PageEdges(st, args.first, args.after),
       pageInfo |-> PagePageInfo(st, args.first, args.after)]

(***************************************************************************)
(* What the collaborators of one fetch do: the authentication helper       *)
(* redirects (expired session) or the API answers with a non-ok status, an *)
(* undecodable body, an errors array, a body without data, or data.        *)
(***************************************************************************)
Outcomes ==
       {[kind |-> "authRedirect", status |-> RedirectStatus, text |-> <<>>]}
  \cup {[kind |-> "httpError", status |-> s, text |-> t] : s \in ErrorStatuses, t \in Texts}
  \cup {[kind |-> "httpErrorUnreadable", status |-> s, text |-> <<>>] : s \in ErrorStatuses}
  \cup {[kind |-> "badJson", status |-> 200, text |-> <<>>]}
  \cup {[kind |-> "graphqlErrors", status |-> 200, text |-> t] : t \in Texts}
  \cup {[kind |-> "noData", status |-> 200, text |-> <<>>]}
  \cup {[kind |-> "data", status |-> 200, text |-> <<>>]}

(***************************************************************************)
(* Results of loader and action.  error: <<>> is undefined; success is     *)
(* "true", "false" or "undefined"; authError undefined is FALSE.           *)
(***************************************************************************)
Success(orders, pageInfo) ==
  [orders |-> orders, pageInfo |-> pageInfo, error |-> <<>>,
   authError |-> FALSE, success |-> "true"]

AuthExpiredResult ==
  [orders |-> <<>>, pageInfo |-> EmptyPageInfo,
   error |-> <<"Authentication session expired. Please refresh the page to re-authenticate.">>,
   authError |-> TRUE, success |-> "undefined"]

Failure(prefix, message) ==
  [orders |-> <<>>, pageInfo |-> EmptyPageInfo, error |-> <<prefix>> \o message,
   authError |-> FALSE, success |-> "false"]

Return(v) == [threw |-> FALSE, value |-> v, error |-> [message |-> <<>>, status |-> 0]]
Throw(e)  == [threw |-> TRUE, value |-> Success(<<>>, EmptyPageInfo), error |-> e]

\* the try block shared by loader and action
TryBlock(outcome, variables, st) ==
  CASE outcome.kind = "authRedirect" ->
         \* authenticate.admin throws the redirect Response
         Throw([message |-> <<>>, status |-> outcome.status])
    [] outcome.kind = "httpError" ->
         Throw([message |-> <<"GraphQL request failed: ", ToString(outcome.status), " - ">>
                              \o outcome.text,
                status |-> 0])
    [] outcome.kind = "httpErrorUnreadable" ->
         Throw([message |-> <<"GraphQL request failed: ", ToString(outcome.status), " - ",
                              "Unknown error">>,
                status |-> 0])
    [] outcome.kind = "badJson" ->
         \* response.json() throws
         Throw([message |-> <<"Unexpected token in JSON">>, status |-> 0])
    [] outcome.kind = "graphqlErrors" ->
         Throw([message |-> <<"GraphQL errors: ">> \o outcome.text, status |-> 0])
    [] outcome.kind = "noData" ->
         Return(Success(<<>>, EmptyPageInfo))
    [] outcome.kind = "data" ->
         LET page == ExecuteQuery(GET_ORDERS, variables, st)
         IN  Return(Success(page.orders, page.pageInfo))

\* the test of the catch block
IsAuthRedirect(error) ==
  Includes(error.message, "redirect") \/ error.status = RedirectStatus

\* the catch block shared by loader and action
CatchBlock(error, prefix) ==
  IF IsAuthRedirect(error) THEN AuthExpiredResult ELSE Failure(prefix, error.message)

LoaderVariables == [first |-> LoaderFirst, after |-> NoCursor]

\* variant: authenticate.admin awaited before the try block
loader_AuthOutsideTry(outcome, st) ==
  LET body == TryBlock(outcome, LoaderVariables, st)
  IN  IF body.threw /\ outcome.kind # "authRedirect"
      THEN Return(CatchBlock(body.error, "Failed to load orders: "))
      ELSE body

loader(outcome, st) ==
  LET body == TryBlock(outcome, LoaderVariables, st)
  IN  IF body.threw
      THEN Return(CatchBlock(body.error, "Failed to load orders: "))
      ELSE body

\* formData.get("first") || "5", formData.get("after")
ActionVariables(form) ==
  [first |-> parseInt(IF form.first = <<>> THEN <<"5">> ELSE form.first),
   after |-> form.after]

action(outcome, form, st) ==
  LET body == TryBlock(outcome, ActionVariables(form), st)
  IN  IF body.threw
      THEN Return(CatchBlock(body.error, "Failed to load more orders: "))
      ELSE body

(***************************************************************************)
(* CSV export (app/utils/csvExport.js).                                    *)
(*                                                                         *)
(* A JavaScript string handled by the export is a sequence of fragments:   *)
(* each comma, double quote and newline is a fragment of its own, and so   *)
(* is a space that begins or ends a string; every other fragment is a run  *)
(* of characters with none of these.  A JavaScript value is a record with  *)
(* its type, its characters (string) and its value (number).  An object    *)
(* that may be null (customer, variant, product) is an optional value.     *)
(***************************************************************************)
Comma == ","
Quote == "\""
Newline == "\n"
Space == " "
\* const BOM = '\uFEFF'
BOM == "U+FEFF"

Null == [type |-> "null", chars |-> <<>>, value |-> 0]
Undefined == [type |-> "undefined", chars |-> <<>>, value |-> 0]
Str(chars) == [type |-> "string", chars |-> chars, value |-> 0]
Num(n) == [type |-> "number", chars |-> <<>>, value |-> n]

\* field == null
IsNullish(v) == v.type \in {"null", "undefined"}

\* a || b : a unless it is null, undefined or ''
OrElse(a, b) == IF IsNullish(a) \/ (a.type = "string" /\ a.chars = <<>>) THEN b ELSE a

DigitChar(d) ==
  CASE d = 0 -> "0" [] d = 1 -> "1" [] d = 2 -> "2" [] d = 3 -> "3" [] d = 4 -> "4"
    [] d = 5 -> "5" [] d = 6 -> "6" [] d = 7 -> "7" [] d = 8 -> "8" [] d = 9 -> "9"

RECURSIVE Digits(_)
\* the decimal digits of a natural number, as one run of characters each
Digits(n) == IF n < 10 THEN <<DigitChar(n)>> ELSE Append(Digits(n \div 10), DigitChar(n % 10))

\* String(field) of a string or of a non-negative integer
String(v) == IF v.type = "number" THEN Digits(v.value) ELSE v.chars

RECURSIVE ReplaceQuotes(_)
\* stringField.replace(/"/g, '""')
ReplaceQuotes(s) ==
  IF s = <<>> THEN <<>>
  ELSE (IF Head(s) = Quote THEN <<Quote, Quote>> ELSE <<Head(s)>>) \o ReplaceQuotes(Tail(s))

\* variant: quotes inside the field are left single
escapeCSVField_NoDoubling(field) ==
  IF IsNullish(field) THEN <<Quote, Quote>>
  ELSE <<Quote>> \o String(field) \o <<Quote>>

escapeCSVField(field) ==
  IF IsNullish(field) THEN <<Quote, Quote>>
  ELSE LET stringField == String(field)
       IN  IF \/ Includes(stringField, Comma)
              \/ Includes(stringField, Quote)
              \/ Includes(stringField, Newline)
           THEN <<Quote>> \o ReplaceQuotes(stringField) \o <<Quote>>
           ELSE <<Quote>> \o stringField \o <<Quote>>

RECURSIVE Join(_, _)
\* Array.prototype.join of an array of strings
Join(strings, separator) ==
  IF strings = <<>> THEN <<>>
  ELSE IF Len(strings) = 1 THEN strings[1]
  ELSE strings[1] \o <<separator>> \o Join(Tail(strings), separator)

\* row[header]: undefined when the row has no such property
Property(row, header) == IF header \in DOMAIN row THEN row[header] ELSE Undefined

\* variant: every row, the last too, is ended by a newline
arrayToCSV_TrailingNewline(data, headers) ==
  LET csvRow(row) ==
        Join([i \in 1..Len(headers) |-> escapeCSVField(Property(row, headers[i]))], Comma)
      csvRows ==
        <<Join([i \in 1..Len(headers) |-> escapeCSVField(Str(<<headers[i]>>))], Comma)>>
        \o [i \in 1..Len(data) |-> csvRow(data[i])]
  IN  Join(csvRows, Newline) \o <<Newline>>

\* data: an array of rows (functions from header to value); headers: an array of names
arrayToCSV(data, headers) ==
  LET headerRow == Join([i \in 1..Len(headers) |-> escapeCSVField(Str(<<headers[i]>>))], Comma)
      csvRow(row) ==
        Join([i \in 1..Len(headers) |-> escapeCSVField(Property(row, headers[i]))], Comma)
      csvRows == <<headerRow>> \o [i \in 1..Len(data) |-> csvRow(data[i])]
  IN  Join(csvRows, Newline)

\* the downloaded file: the Blob's text and the download attribute
downloadCSV(csvContent, filename) ==
  [text |-> <<BOM>> \o csvContent, filename |-> filename, type |-> "text/csv;charset=utf-8;"]

\* the day of the export, new Date().toISOString().split('T')[0]
Timestamp == "2024-01-15"

\* formatDate (app/utils/formatters): toLocaleString("en-US", {year: "numeric",
\* month: "short", day: "numeric", hour: "2-digit", minute: "2-digit"}), UTC
formatDate(dateString) ==
  CASE dateString.chars = <<"2023-12-25T10:30:00Z">> ->
         <<"Dec 25", Comma, " 2023", Comma, " 10:30 AM">>
    [] dateString.chars = <<"2024-01-15T14:45:30.123Z">> ->
         <<"Jan 15", Comma, " 2024", Comma, " 02:45 PM">>
    [] OTHER -> <<"Invalid Date">>

Whitespace == {Space, Newline}

RECURSIVE trimStart(_)
trimStart(s) ==
  IF s # <<>> /\ Head(s) \in Whitespace THEN trimStart(Tail(s)) ELSE s

RECURSIVE trimEnd(_)
trimEnd(s) ==
  IF s # <<>> /\ s[Len(s)] \in Whitespace THEN trimEnd(SubSeq(s, 1, Len(s) - 1)) ELSE s

\* String.prototype.trim
trim(s) == trimEnd(trimStart(s))

\* customer ? `${customer.firstName || ''} ${customer.lastName || ''}`.trim() || 'Guest'
\*          : 'Guest'
customerName(customer) ==
  IF customer = <<>> THEN Str(<<"Guest">>)
  ELSE OrElse(Str(trim(String(OrElse(customer[1].firstName, Str(<<>>))) \o <<Space>>
                       \o String(OrElse(customer[1].lastName, Str(<<>>))))),
              Str(<<"Guest">>))

\* customer?.email || order.email || ''
customerEmail(order) ==
  OrElse(OrElse(IF order.customer = <<>> THEN Undefined ELSE order.customer[1].email,
                order.email),
         Str(<<>>))

\* the eight order columns shared by both exports
baseOrderData(order) ==
  ("Order Name" :> order.name)
  @@ ("Customer Name" :> customerName(order.customer))
  @@ ("Customer Email" :> customerEmail(order))
  @@ ("Order Date" :> Str(formatDate(order.createdAt)))
  @@ ("Payment Status" :> order.displayFinancialStatus)
  @@ ("Fulfillment Status" :> order.displayFulfillmentStatus)
  @@ ("Order Total" :> order.currentTotalPriceSet.shopMoney.amount)
  @@ ("Currency" :> order.currentTotalPriceSet.shopMoney.currencyCode)

ItemHeaders ==
  <<"Product Name", "Quantity", "Unit Price", "Line Total", "SKU", "Variant", "Product ID">>

DetailedHeaders ==
  <<"Order Name", "Customer Name", "Customer Email", "Order Date", "Payment Status",
    "Fulfillment Status", "Order Total", "Currency">> \o ItemHeaders

SummaryHeaders ==
  <<"Order Name", "Customer Name", "Customer Email", "Order Date", "Payment Status",
    "Fulfillment Status", "Total Items", "Unique Products", "Order Total", "Currency">>

\* the row of one line item
itemRow(order, item) ==
  ("Product Name" :> item.name)
  @@ ("Quantity" :> item.quantity)
  @@ ("Unit Price" :> item.originalUnitPriceSet.shopMoney.amount)
  @@ ("Line Total" :> item.originalTotalSet.shopMoney.amount)
  @@ ("SKU" :> OrElse(item.sku, Str(<<>>)))
  @@ ("Variant" :> OrElse(IF item.variant = <<>> THEN Undefined ELSE item.variant[1].title,
                          Str(<<>>)))
  @@ ("Product ID" :> OrElse(IF item.product = <<>> THEN Undefined ELSE item.product[1].id,
                             Str(<<>>)))
  @@ baseOrderData(order)

\* the row of an order without line items
emptyItemRow(order) ==
  [h \in {ItemHeaders[i] : i \in 1..Len(ItemHeaders)} |-> Str(<<>>)] @@ baseOrderData(order)

\* variant: an order without line items contributes no row
orderRows_NoRowWithoutItems(order) ==
  [i \in 1..Len(order.lineItems.edges) |-> itemRow(order, order.lineItems.edges[i])]

\* the rows one order contributes to the detailed export
orderRows(order) ==
  IF Len(order.lineItems.edges) > 0
  THEN [i \in 1..Len(order.lineItems.edges) |-> itemRow(order, order.lineItems.edges[i])]
  ELSE <<emptyItemRow(order)>>

RECURSIVE detailedData(_)
\* exportData of exportOrdersWithLineItems
detailedData(orders) ==
  IF orders = <<>> THEN <<>> ELSE orderRows(Head(orders)) \o detailedData(Tail(orders))

\* filename is optional
exportOrdersWithLineItems(orders, filename) ==
  downloadCSV(arrayToCSV(detailedData(orders), DetailedHeaders),
              IF filename # <<>> THEN filename[1]
              ELSE <<"orders_export_", Timestamp, ".csv">>)

RECURSIVE totalItems(_)
\* order.lineItems.edges.reduce((sum, edge) => sum + edge.node.quantity, 0)
totalItems(edges) ==
  IF edges = <<>> THEN 0
  ELSE totalItems(SubSeq(edges, 1, Len(edges) - 1)) + edges[Len(edges)].quantity.value

\* variant: counting the distinct products of the line items
uniqueProducts_DistinctProducts(edges) ==
  Cardinality({edges[i].product : i \in 1..Len(edges)})

\* order.lineItems.edges.length
uniqueProducts(edges) == Len(edges)

summaryRow(order) ==
  ("Total Items" :> Num(totalItems(order.lineItems.edges)))
  @@ ("Unique Products" :> Num(uniqueProducts(order.lineItems.edges)))
  @@ baseOrderData(order)

\* variant: the summary built from one row per line item
summaryData_PerLineItem(orders) == detailedData(orders)

\* exportData of exportOrdersSummary
summaryData(orders) == [i \in 1..Len(orders) |-> summaryRow(orders[i])]

exportOrdersSummary(orders, filename) ==
  downloadCSV(arrayToCSV(summaryData(orders), SummaryHeaders),
              IF filename # <<>> THEN filename[1]
              ELSE <<"orders_summary_", Timestamp, ".csv">>)

(***************************************************************************)
(* The shop's orders: the node the API returns for an order id.  The data  *)
(* varies with the id so that every branch of the export is met: customer  *)
(* absent, names null or empty, e-mail taken from the order, zero, one or  *)
(* two line items, and texts holding commas, quotes and newlines.  An edge *)
(* of lineItems is represented by its node.                                *)
(***************************************************************************)
ShopMoney(amount) == [shopMoney |-> [amount |-> Str(amount), currencyCode |-> Str(<<"USD">>)]]

Customer(firstName, lastName, email) ==
  <<[firstName |-> firstName, lastName |-> lastName, email |-> email]>>

CustomerOf(id) ==
  CASE id % 5 = 0 -> <<>>
    [] id % 5 = 1 -> Customer(Str(<<"Ann">>), Str(<<"Lee">>), Str(<<"ann@example.com">>))
    [] id % 5 = 2 -> Customer(Null, Str(<<"Smith", Comma, " Jr">>), Null)
    [] id % 5 = 3 -> Customer(Str(<<>>), Null, Str(<<>>))
    [] id % 5 = 4 -> Customer(Str(<<"J", Quote, "R", Quote>>), Null, Str(<<"jr@example.com">>))

LineItem(id, name, quantity, sku, variant, product) ==
  [id |-> id, name |-> Str(name), quantity |-> Num(quantity), sku |-> sku,
   originalUnitPriceSet |-> ShopMoney(<<"4.50">>),
   originalTotalSet |-> ShopMoney(<<"45.00">>),
   variant |-> variant, product |-> product]

Product == <<[id |-> Str(<<"gid://shopify/Product/7">>), title |-> Str(<<"Pipe">>)]>>

\* the two line items of an order share one product
LineItemsOf(id) ==
  CASE id % 3 = 0 -> <<>>
    [] id % 3 = 1 -> <<LineItem(10 * id + 1, <<"Mug">>, id, Null, <<>>, <<>>)>>
    [] id % 3 = 2 ->
         <<LineItem(10 * id + 1, <<"Pipe 12", Quote>>, 2, Str(<<"P-12">>),
                    <<[id |-> Str(<<"v1">>), title |-> Str(<<"Red", Comma, "L">>)]>>, Product),
           LineItem(10 * id + 2, <<"Pipe", Newline, "long">>, 10 + id, Str(<<>>),
                    <<[id |-> Str(<<"v2">>), title |-> Null]>>, Product)>>

Node(id) ==
  [id |-> id,
   name |-> Str(<<"#">> \o Digits(1000 + id)),
   createdAt |-> Str(IF id % 2 = 0 THEN <<"2023-12-25T10:30:00Z">>
                     ELSE <<"2024-01-15T14:45:30.123Z">>),
   displayFinancialStatus |-> Str(IF id % 2 = 0 THEN <<"PAID">> ELSE <<"PENDING">>),
   displayFulfillmentStatus |-> Str(IF id % 4 < 2 THEN <<"FULFILLED">> ELSE <<"UNFULFILLED">>),
   currentTotalPriceSet |-> ShopMoney(<<"45.00">>),
   email |-> IF id % 5 \in {0, 2} THEN Str(<<"order@example.com">>) ELSE Null,
   customer |-> CustomerOf(id),
   lineItems |-> [edges |-> LineItemsOf(id)]]

\* allOrders.map(edge => edge.node)
Nodes(ids) == [i \in 1..Len(ids) |-> Node(ids[i])]

\* the file a call of an export function downloads
Download(call) ==
  IF call.mode = "summary" THEN exportOrdersSummary(Nodes(call.orders), call.filename)
  ELSE exportOrdersWithLineItems(Nodes(call.orders), call.filename)

(***************************************************************************)
(* Status badges (app/utils/badges.jsx).  A badge is its status prop       *)
(* (optional) and its children; a status code is a string of one fragment. *)
(***************************************************************************)
Badge(status, children) == [status |-> status, children |-> children]

\* variant: an unrecognized code is labelled "Unknown"
getStatusBadge_UnknownLabel(status) ==
  CASE status = Str(<<"PAID">>) -> Badge(<<"success">>, Str(<<"Paid">>))
    [] status = Str(<<"PENDING">>) -> Badge(<<"attention">>, Str(<<"Pending">>))
    [] status = Str(<<"AUTHORIZED">>) -> Badge(<<"info">>, Str(<<"Authorized">>))
    [] status = Str(<<"PARTIALLY_PAID">>) -> Badge(<<"warning">>, Str(<<"Partially Paid">>))
    [] status = Str(<<"REFUNDED">>) -> Badge(<<"critical">>, Str(<<"Refunded">>))
    [] status = Str(<<"VOIDED">>) -> Badge(<<"critical">>, Str(<<"Voided">>))
    [] OTHER -> Badge(<<>>, Str(<<"Unknown">>))

getStatusBadge(status) ==
  CASE status = Str(<<"PAID">>) -> Badge(<<"success">>, Str(<<"Paid">>))
    [] status = Str(<<"PENDING">>) -> Badge(<<"attention">>, Str(<<"Pending">>))
    [] status = Str(<<"AUTHORIZED">>) -> Badge(<<"info">>, Str(<<"Authorized">>))
    [] status = Str(<<"PARTIALLY_PAID">>) -> Badge(<<"warning">>, Str(<<"Partially Paid">>))
    [] status = Str(<<"REFUNDED">>) -> Badge(<<"critical">>, Str(<<"Refunded">>))
    [] status = Str(<<"VOIDED">>) -> Badge(<<"critical">>, Str(<<"Voided">>))
    [] OTHER -> Badge(<<>>, status)

getFulfillmentBadge(status) ==
  CASE status = Str(<<"FULFILLED">>) -> Badge(<<"success">>, Str(<<"Fulfilled">>))
    [] status = Str(<<"UNFULFILLED">>) -> Badge(<<"attention">>, Str(<<"Unfulfilled">>))
    [] status = Str(<<"PARTIALLY_FULFILLED">>) ->
         Badge(<<"warning">>, Str(<<"Partially Fulfilled">>))
    [] status = Str(<<"RESTOCKED">>) -> Badge(<<"info">>, Str(<<"Restocked">>))
    [] OTHER -> Badge(<<>>, status)

(***************************************************************************)
(* State.                                                                  *)
(***************************************************************************)
VARIABLES
  store,               \* number of orders in the shop behind the API
  phase,               \* "idle" | "loading" (loader running) | "mounted" | "crashed"
  loaderData,          \* useLoaderData(): <<>> or <<result>>
  allOrders,           \* useState(initialOrders)
  pageInfo,            \* useState(initialPageInfo)
  selectedOrderId,     \* useState(null): the detail pointer
  selectedOrderIds,    \* useState([]): the selection
  exportPopoverActive, \* useState(false)
  fetcherState,        \* loadMoreFetcher.state: "idle" | "submitting" | "loading"
  fetcherData,         \* loadMoreFetcher.data: <<>> or <<result>>
  inflight,            \* submitted load-more forms whose action has not answered
  loads,               \* load-more submissions of this page visit
  history,             \* record of what was fetched (observation only)
  last,                \* the last step and what it showed the user (observation only)
  dataDir,             \* startup script: the directory /data exists
  dbExists,            \* startup script: const dbExists = fs.existsSync(dbPath)
  pc,                  \* startup script: where the script's top-level code stands
  children             \* startup script: the child, timer and promise of each exec call

\* the state of the startup script
startupVars == <<dataDir, dbExists, pc, children>>

vars == <<store, phase, loaderData, allOrders, pageInfo, selectedOrderId,
          selectedOrderIds, exportPopoverActive, fetcherState, fetcherData,
          inflight, loads, history, last, startupVars>>

\* useState(null) of the detail pointer
NoOrder == 0

\* history: initial = orders of the loader run that mounted the page,
\* arrived = orders of the successful load-more responses, in arrival order,
\* good = pageInfo of the last successful response (of the mount if none),
\* loaderCause / actionCause = the outcome behind loaderData / fetcherData,
\* call = <<>> or <<[variables, executed]>> of the last query sent
NoHistory ==
  [initial |-> <<>>, arrived |-> <<>>, good |-> EmptyPageInfo,
   loaderCause |-> <<>>, actionCause |-> <<>>, call |-> <<>>, before |-> <<>>]

Step(event) == [event |-> event, alert |-> FALSE, csv |-> <<>>]

\* the query of a fetch reaches the API unless authentication redirected
Call(outcome, variables, previous) ==
  IF outcome.kind = "authRedirect" THEN previous
  ELSE <<[variables |-> variables, executed |-> ExecutedArgs(GET_ORDERS, variables)]>>

(***************************************************************************)
(* The startup script (database setup, then the application).              *)
(***************************************************************************)
Commands == {"npx prisma generate", "npx prisma migrate deploy", "application"}

\* an exec call not made yet.  proc: "none" | "running" | "exited" | "failed" (the
\* 'error' event); code: the exit code, <<>> while there is none (null after a
\* signal); killed: child.kill('SIGKILL') was called; timer: "none" | "armed" |
\* "cleared" | "fired"; promise: "none" | "pending" | "resolved" | "rejected";
\* spawned: how often the command was spawned
NoChild ==
  [proc |-> "none", code |-> <<>>, killed |-> FALSE, timer |-> "none", promise |-> "none",
   spawned |-> 0]

\* the script has not been run
StartupIdle ==
  /\ dataDir = TRUE
  /\ dbExists = TRUE
  /\ pc = "start"
  /\ children = [c \in Commands |-> NoChild]

\* the page before the route is visited
PageInit ==
  /\ store \in StoreSizes
  /\ phase = "idle"
  /\ loaderData = <<>>
  /\ allOrders = <<>>
  /\ pageInfo = EmptyPageInfo
  /\ selectedOrderId = NoOrder
  /\ selectedOrderIds = <<>>
  /\ exportPopoverActive = FALSE
  /\ fetcherState = "idle"
  /\ fetcherData = <<>>
  /\ inflight = <<>>
  /\ loads = 0
  /\ history = NoHistory

Init == PageInit /\ last = Step("init") /\ StartupIdle

\* variant: the selection outlives the component
Unmounted_KeepsSelection ==
  /\ loaderData' = <<>>
  /\ allOrders' = <<>>
  /\ pageInfo' = EmptyPageInfo
  /\ selectedOrderId' = NoOrder
  /\ selectedOrderIds' = selectedOrderIds
  /\ exportPopoverActive' = FALSE
  /\ fetcherState' = "idle"
  /\ fetcherData' = <<>>
  /\ inflight' = <<>>
  /\ loads' = 0
  /\ history' = NoHistory

\* the component is not mounted: its state is the useState initial values
Unmounted ==
  /\ loaderData' = <<>>
  /\ allOrders' = <<>>
  /\ pageInfo' = EmptyPageInfo
  /\ selectedOrderId' = NoOrder
  /\ selectedOrderIds' = <<>>
  /\ exportPopoverActive' = FALSE
  /\ fetcherState' = "idle"
  /\ fetcherData' = <<>>
  /\ inflight' = <<>>
  /\ loads' = 0
  /\ history' = NoHistory

(***************************************************************************)
(* What OrdersPage renders.                                                *)
(***************************************************************************)
\* if (error) return <the error page>
ErrorView == phase = "mounted" /\ loaderData[1].error # <<>>

\* if (!allOrders || allOrders.length === 0) return <the empty page>
EmptyView == phase = "mounted" /\ loaderData[1].error = <<>> /\ allOrders = <<>>

\* the table
LoadedView == phase = "mounted" /\ loaderData[1].error = <<>> /\ allOrders # <<>>

\* variant: the fetcher state compared with the wrong name
isLoadingMore_WrongState == fetcherState = "loading"

isLoadingMore == fetcherState = "submitting"

\* variant: the button rendered whatever pageInfo says
LoadMoreRendered_Always == LoadedView

\* {pageInfo.hasNextPage && <Button>Load More</Button>}
LoadMoreRendered == LoadedView /\ pageInfo.hasNextPage

\* variant: the button without its loading prop
LoadMoreClickable_WhileLoading == LoadMoreRendered

\* a Button with loading={isLoadingMore} does not take clicks while loading
LoadMoreClickable == LoadMoreRendered /\ ~isLoadingMore

\* {loadMoreFetcher.data?.error && <Box>...</Box>}
LoadMoreErrorShown == LoadedView /\ fetcherData # <<>> /\ fetcherData[1].error # <<>>

(***************************************************************************)
(* Page entry and the initial load.                                        *)
(***************************************************************************)
\* the browser requests the route: the loader starts
Navigate ==
  /\ phase = "idle"
  /\ phase' = "loading"
  /\ last' = Step("Navigate")
  /\ UNCHANGED <<store, loaderData, allOrders, pageInfo, selectedOrderId,
                 selectedOrderIds, exportPopoverActive, fetcherState, fetcherData,
                 inflight, loads, history, startupVars>>

\* the loader answers and OrdersPage mounts with its result
LoaderResponse(outcome) ==
  /\ phase = "loading"
  /\ LET r == loader(outcome, store)
     IN  /\ phase' = IF r.threw THEN "crashed" ELSE "mounted"
         /\ loaderData' = <<r.value>>
         /\ allOrders' = r.value.orders
         /\ pageInfo' = r.value.pageInfo
         /\ history' = [history EXCEPT
                          !.initial = r.value.orders,
                          !.good = r.value.pageInfo,
                          !.loaderCause = <<outcome>>,
                          !.call = Call(outcome, LoaderVariables, @)]
  /\ last' = Step("LoaderResponse")
  /\ UNCHANGED <<store, selectedOrderId, selectedOrderIds, exportPopoverActive,
                 fetcherState, fetcherData, inflight, loads, startupVars>>

(***************************************************************************)
(* Load more.                                                              *)
(***************************************************************************)
\* the form handleLoadMore submits
LoadMoreForm(info) == [after |-> info.endCursor, first |-> <<"5">>]

\* handleLoadMore: submits only if (pageInfo.hasNextPage && pageInfo.endCursor)
handleLoadMore(info) ==
  IF info.hasNextPage /\ info.endCursor # NoCursor THEN <<LoadMoreForm(info)>> ELSE <<>>

\* the user clicks Load More
ClickLoadMore ==
  /\ LoadMoreClickable
  /\ loads < MaxLoads
  /\ LET submitted == handleLoadMore(pageInfo)
     IN  /\ inflight' = inflight \o submitted
         /\ fetcherState' = IF submitted = <<>> THEN fetcherState ELSE "submitting"
         /\ loads' = loads + Len(submitted)
         /\ history' = [history EXCEPT
                          !.before = <<[allOrders |-> allOrders, pageInfo |-> pageInfo]>>]
  /\ last' = Step("ClickLoadMore")
  /\ UNCHANGED <<store, phase, loaderData, allOrders, pageInfo, selectedOrderId,
                 selectedOrderIds, exportPopoverActive, fetcherData, startupVars>>

\* variant: setAllOrders(newOrders)
AppendOrders_Replace(prev, newOrders) == newOrders

\* setAllOrders(prev => [...prev, ...newOrders])
AppendOrders(prev, newOrders) == prev \o newOrders

\* variant: the effect without its test of data.error
LoadMoreEffect_IgnoresError(prev, info, data) ==
  [allOrders |-> AppendOrders(prev, data.orders), pageInfo |-> data.pageInfo]

\* the useEffect on loadMoreFetcher.data: the new [allOrders, pageInfo]
LoadMoreEffect(prev, info, data) ==
  IF data.error = <<>>
  THEN [allOrders |-> AppendOrders(prev, data.orders), pageInfo |-> data.pageInfo]
  ELSE [allOrders |-> prev, pageInfo |-> info]

\* the action answers the oldest submitted form; the fetcher takes the result
\* as its data, starts revalidating the route loader, and the effect runs
ActionResponse(outcome) ==
  /\ phase = "mounted"
  /\ inflight # <<>>
  /\ LET r == action(outcome, Head(inflight), store)
         e == LoadMoreEffect(allOrders, pageInfo, r.value)
         appended == r.value.error = <<>>
     IN  /\ phase' = IF r.threw THEN "crashed" ELSE phase
         /\ fetcherData' = <<r.value>>
         /\ allOrders' = e.allOrders
         /\ pageInfo' = e.pageInfo
         /\ history' = [history EXCEPT
                          !.arrived = IF appended THEN @ \o r.value.orders ELSE @,
                          !.good = IF appended THEN r.value.pageInfo ELSE @,
                          !.actionCause = <<outcome>>,
                          !.call = Call(outcome, ActionVariables(Head(inflight)), @)]
  /\ inflight' = Tail(inflight)
  /\ fetcherState' = "loading"
  /\ last' = Step("ActionResponse")
  /\ UNCHANGED <<store, loaderData, selectedOrderId, selectedOrderIds,
                 exportPopoverActive, loads, startupVars>>

\* the route loader, run again after the fetcher's action, answers:
\* useLoaderData() yields the new result and the fetcher is idle again
RevalidateDone(outcome) ==
  /\ phase = "mounted"
  /\ fetcherState = "loading"
  /\ LET r == loader(outcome, store)
     IN  /\ phase' = IF r.threw THEN "crashed" ELSE phase
         /\ loaderData' = <<r.value>>
         /\ history' = [history EXCEPT
                          !.loaderCause = <<outcome>>,
                          !.call = Call(outcome, LoaderVariables, @)]
  /\ fetcherState' = "idle"
  /\ last' = Step("RevalidateDone")
  /\ UNCHANGED <<store, allOrders, pageInfo, selectedOrderId, selectedOrderIds,
                 exportPopoverActive, fetcherData, inflight, loads, startupVars>>

(***************************************************************************)
(* Leaving the page.                                                       *)
(***************************************************************************)
\* a "Refresh Page" / "Retry" button is rendered
ReloadRendered ==
  \/ ErrorView
  \/ EmptyView /\ loaderData[1].success = "false"
  \/ LoadMoreErrorShown /\ fetcherData[1].authError

\* window.location.reload(): the page is requested again from scratch
Reload ==
  /\ ReloadRendered
  /\ phase' = "loading"
  /\ Unmounted
  /\ last' = Step("Reload")
  /\ UNCHANGED <<store, startupVars>>

\* the "Re-authenticate" button: window.location.href = '/app'
Reauthenticate ==
  /\ ErrorView
  /\ loaderData[1].authError
  /\ phase' = "idle"
  /\ Unmounted
  /\ last' = Step("Reauthenticate")
  /\ UNCHANGED <<store, startupVars>>

(***************************************************************************)
(* Selection, detail panel, export.                                        *)
(***************************************************************************)
\* the rows the user operates
Rows == {allOrders[i] : i \in 1..Len(allOrders)} \cap (1..MaxRow)

\* variant: checking a row replaces the selection
handleSelectOrder_Replace(ids, orderId, checked) ==
  IF checked THEN <<orderId>> ELSE SelectSeq(ids, LAMBDA id : id # orderId)

\* setSelectedOrderIds([...selectedOrderIds, orderId]) or
\* setSelectedOrderIds(selectedOrderIds.filter(id => id !== orderId))
handleSelectOrder(ids, orderId, checked) ==
  IF checked THEN Append(ids, orderId) ELSE SelectSeq(ids, LAMBDA id : id # orderId)

\* variant: only the orders of the first page are selected
handleSelectAll_FirstPage(orders, checked) ==
  IF checked THEN SubSeq(orders, 1, Min(Len(orders), QueryFirst)) ELSE <<>>

handleSelectAll(orders, checked) == IF checked THEN orders ELSE <<>>

allSelected == Len(allOrders) > 0 /\ Len(selectedOrderIds) = Len(allOrders)

\* selectedOrderIds.length > 0 && selectedOrderIds.length < allOrders.length
someSelected == Len(selectedOrderIds) > 0 /\ Len(selectedOrderIds) < Len(allOrders)

\* tableRows: isSelected = selectedOrderIds.includes(order.id)
isSelected(ids, orderId) == Includes(ids, orderId)

\* a row's checkbox changes: it reports the opposite of what it showed
ToggleOrder(orderId) ==
  /\ LoadedView
  /\ orderId \in Rows
  /\ selectedOrderIds' =
       handleSelectOrder(selectedOrderIds, orderId, ~isSelected(selectedOrderIds, orderId))
  /\ last' = Step("ToggleOrder")
  /\ UNCHANGED <<store, phase, loaderData, allOrders, pageInfo, selectedOrderId,
                 exportPopoverActive, fetcherState, fetcherData, inflight, loads, history,
                 startupVars>>

\* the select-all checkbox changes
SelectAll ==
  /\ LoadedView
  /\ selectedOrderIds' = handleSelectAll(allOrders, ~allSelected)
  /\ last' = Step("SelectAll")
  /\ UNCHANGED <<store, phase, loaderData, allOrders, pageInfo, selectedOrderId,
                 exportPopoverActive, fetcherState, fetcherData, inflight, loads, history,
                 startupVars>>

\* variant: View Details also makes the row the selection
ViewDetails_AlsoSelects(orderId) ==
  /\ LoadedView
  /\ orderId \in Rows
  /\ selectedOrderId' = orderId
  /\ selectedOrderIds' = <<orderId>>
  /\ last' = Step("ViewDetails")
  /\ UNCHANGED <<store, phase, loaderData, allOrders, pageInfo,
                 exportPopoverActive, fetcherState, fetcherData, inflight, loads, history,
                 startupVars>>

\* View Details on a row: setSelectedOrderId(order.id)
ViewDetails(orderId) ==
  /\ LoadedView
  /\ orderId \in Rows
  /\ selectedOrderId' = orderId
  /\ last' = Step("ViewDetails")
  /\ UNCHANGED <<store, phase, loaderData, allOrders, pageInfo, selectedOrderIds,
                 exportPopoverActive, fetcherState, fetcherData, inflight, loads, history,
                 startupVars>>

\* the close button of the detail panel: setSelectedOrderId(null)
CloseDetails ==
  /\ LoadedView
  /\ selectedOrderId # NoOrder
  /\ selectedOrderId' = NoOrder
  /\ last' = Step("CloseDetails")
  /\ UNCHANGED <<store, phase, loaderData, allOrders, pageInfo, selectedOrderIds,
                 exportPopoverActive, fetcherState, fetcherData, inflight, loads, history,
                 startupVars>>

\* the Export (n) activator, rendered while the selection is not empty
TogglePopover ==
  /\ LoadedView
  /\ selectedOrderIds # <<>>
  /\ exportPopoverActive' = ~exportPopoverActive
  /\ last' = Step("TogglePopover")
  /\ UNCHANGED <<store, phase, loaderData, allOrders, pageInfo, selectedOrderId,
                 selectedOrderIds, fetcherState, fetcherData, inflight, loads, history,
                 startupVars>>

\* onClose of the popover: setExportPopoverActive(false)
ClosePopover ==
  /\ LoadedView
  /\ selectedOrderIds # <<>>
  /\ exportPopoverActive
  /\ exportPopoverActive' = FALSE
  /\ last' = Step("ClosePopover")
  /\ UNCHANGED <<store, phase, loaderData, allOrders, pageInfo, selectedOrderId,
                 selectedOrderIds, fetcherState, fetcherData, inflight, loads, history,
                 startupVars>>

\* allOrders.filter(edge => selectedOrderIds.includes(edge.node.id)).map(edge => edge.node)
getSelectedOrders(orders, ids) == SelectSeq(orders, LAMBDA id : Includes(ids, id))

\* variant: the handler without its test of the selection
handleExportSelected_NoValidation(mode, orders, ids, active) ==
  [alert |-> FALSE,
   csv |-> <<[mode |-> mode, orders |-> getSelectedOrders(orders, ids), filename |-> <<>>]>>,
   active |-> FALSE]

\* handleExportDetailed / handleExportSummary: what the handler shows, writes
\* and leaves in exportPopoverActive
handleExportSelected(mode, orders, ids, active) ==
  LET selectedOrders == getSelectedOrders(orders, ids)
  IN  IF Len(selectedOrders) = 0
      THEN [alert |-> TRUE, csv |-> <<>>, active |-> active]
      ELSE [alert |-> FALSE,
            csv |-> <<[mode |-> mode, orders |-> selectedOrders, filename |-> <<>>]>>,
            active |-> FALSE]

\* Export Selected (Detailed) / (Summary) is invoked.  The menu entries are
\* rendered only while the selection is not empty; the handlers carry their
\* own test of the selection, and it is the handlers that are modelled here.
ExportSelected(mode) ==
  /\ LoadedView
  /\ LET h == handleExportSelected(mode, allOrders, selectedOrderIds, exportPopoverActive)
     IN  /\ exportPopoverActive' = h.active
         /\ last' = [event |-> "ExportSelected", alert |-> h.alert, csv |-> h.csv]
  /\ UNCHANGED <<store, phase, loaderData, allOrders, pageInfo, selectedOrderId,
                 selectedOrderIds, fetcherState, fetcherData, inflight, loads, history,
                 startupVars>>

\* variant: Export All exporting the selected orders
handleExportAll_SelectedOnly(orders, ids) ==
  <<[mode |-> "detailed", orders |-> getSelectedOrders(orders, ids),
     filename |-> <<<<"all_orders_", Timestamp, ".csv">>>>]>>

\* handleExportAll: exportOrdersWithLineItems(allOrders.map(edge => edge.node), ...);
\* the handler does not read the selection (ids)
handleExportAll(orders, ids) ==
  <<[mode |-> "detailed", orders |-> orders,
     filename |-> <<<<"all_orders_", Timestamp, ".csv">>>>]>>

\* the Export All button (empty selection) or menu entry (popover open)
ExportAll ==
  /\ LoadedView
  /\ selectedOrderIds = <<>> \/ exportPopoverActive
  /\ exportPopoverActive' = FALSE
  /\ last' = [event |-> "ExportAll", alert |-> FALSE,
              csv |-> handleExportAll(allOrders, selectedOrderIds)]
  /\ UNCHANGED <<store, phase, loaderData, allOrders, pageInfo, selectedOrderId,
                 selectedOrderIds, fetcherState, fetcherData, inflight, loads, history,
                 startupVars>>

Next ==
  \/ Navigate
  \/ \E outcome \in Outcomes : LoaderResponse(outcome)
  \/ ClickLoadMore
  \/ \E outcome \in Outcomes : ActionResponse(outcome)
  \/ \E outcome \in Outcomes : RevalidateDone(outcome)
  \/ Reload
  \/ Reauthenticate
  \/ \E orderId \in 1..MaxRow : ToggleOrder(orderId)
  \/ SelectAll
  \/ \E orderId \in 1..MaxRow : ViewDetails(orderId)
  \/ CloseDetails
  \/ TogglePopover
  \/ ClosePopover
  \/ \E mode \in {"detailed", "summary"} : ExportSelected(mode)
  \/ ExportAll

Spec == Init /\ [][Next]_vars

(***************************************************************************)
(* The pure functions on their own: every call of exportOrdersSummary,     *)
(* exportOrdersWithLineItems, arrayToCSV, escapeCSVField, getStatusBadge   *)
(* and getFulfillmentBadge with inputs from bounded sets.  last holds the  *)
(* call to make, then the call and what it returned or downloaded; the     *)
(* page stays as constructed.                                              *)
(***************************************************************************)
SeqsUpTo(S, n) == UNION {[1..k -> S] : k \in 0..n}

\* arrays of orders
OrderInputs == SeqsUpTo(1..MaxOrderId, MaxExported)

FieldChars == {"a", Comma, Quote, Newline, Space}

\* values of a field: absent, numbers, and strings with and without special characters
FieldInputs ==
  {Null, Undefined} \cup {Num(n) : n \in {0, 7, 120}}
  \cup {Str(chars) : chars \in SeqsUpTo(FieldChars, MaxField)}

\* rows with a missing, a null and a numeric property
RowInputs ==
  { ("A" :> Str(<<"x">>)) @@ ("B" :> Num(3)),
    ("A" :> Str(<<"x", Comma, Quote, "y">>)) @@ ("B" :> Null),
    ("B" :> Str(<<Newline>>)) @@ ("C" :> Str(<<"unused">>)) }

HeaderInputs == { <<"A">>, <<"A", "B">>, <<"B", "A">> }

\* status codes: the ones the badges know, codes of the API they do not know, the
\* same letters in another case, the empty string and null
StatusInputs ==
  {Str(<<code>>) : code \in {"PAID", "PENDING", "AUTHORIZED", "PARTIALLY_PAID", "REFUNDED",
                             "VOIDED", "FULFILLED", "UNFULFILLED", "PARTIALLY_FULFILLED",
                             "RESTOCKED", "EXPIRED", "PARTIALLY_REFUNDED", "IN_PROGRESS",
                             "ON_HOLD", "FOO", "paid", "Fulfilled"}}
  \cup {Str(<<>>), Null}

\* a call about to be made: the function and its arguments
CsvCalls ==
  {[event |-> "call", alert |-> FALSE, csv |-> <<>>, fn |-> "exportOrdersSummary",
    orders |-> orders, filename |-> <<>>] : orders \in OrderInputs}
  \cup {[event |-> "call", alert |-> FALSE, csv |-> <<>>, fn |-> "exportOrdersWithLineItems",
         orders |-> orders, filename |-> filename] :
          orders \in OrderInputs,
          filename \in {<<>>, <<<<"all_orders_", Timestamp, ".csv">>>>}}
  \cup {[event |-> "call", alert |-> FALSE, csv |-> <<>>, fn |-> "arrayToCSV",
         data |-> data, headers |-> headers] :
          data \in SeqsUpTo(RowInputs, MaxExported), headers \in HeaderInputs}
  \cup {[event |-> "call", alert |-> FALSE, csv |-> <<>>, fn |-> "escapeCSVField",
         field |-> field] : field \in FieldInputs}
  \cup {[event |-> "call", alert |-> FALSE, csv |-> <<>>, fn |-> fn, status |-> status] :
          fn \in {"getStatusBadge", "getFulfillmentBadge"}, status \in StatusInputs}

CsvInit == PageInit /\ store = 0 /\ last \in CsvCalls /\ StartupIdle

CallExportOrdersSummary ==
  /\ last.event = "call" /\ last.fn = "exportOrdersSummary"
  /\ LET call == [mode |-> "summary", orders |-> last.orders, filename |-> last.filename]
     IN  last' = [event |-> "exportOrdersSummary", alert |-> FALSE, csv |-> <<call>>,
                  result |-> Download(call)]
  /\ UNCHANGED <<store, phase, loaderData, allOrders, pageInfo, selectedOrderId,
                 selectedOrderIds, exportPopoverActive, fetcherState, fetcherData,
                 inflight, loads, history, startupVars>>

CallExportOrdersWithLineItems ==
  /\ last.event = "call" /\ last.fn = "exportOrdersWithLineItems"
  /\ LET call == [mode |-> "detailed", orders |-> last.orders, filename |-> last.filename]
     IN  last' = [event |-> "exportOrdersWithLineItems", alert |-> FALSE, csv |-> <<call>>,
                  result |-> Download(call)]
  /\ UNCHANGED <<store, phase, loaderData, allOrders, pageInfo, selectedOrderId,
                 selectedOrderIds, exportPopoverActive, fetcherState, fetcherData,
                 inflight, loads, history, startupVars>>

CallArrayToCSV ==
  /\ last.event = "call" /\ last.fn = "arrayToCSV"
  /\ last' = [event |-> "arrayToCSV", alert |-> FALSE, csv |-> <<>>,
              data |-> last.data, headers |-> last.headers,
              result |-> arrayToCSV(last.data, last.headers)]
  /\ UNCHANGED <<store, phase, loaderData, allOrders, pageInfo, selectedOrderId,
                 selectedOrderIds, exportPopoverActive, fetcherState, fetcherData,
                 inflight, loads, history, startupVars>>

CallEscapeCSVField ==
  /\ last.event = "call" /\ last.fn = "escapeCSVField"
  /\ last' = [event |-> "escapeCSVField", alert |-> FALSE, csv |-> <<>>,
              field |-> last.field, result |-> escapeCSVField(last.field)]
  /\ UNCHANGED <<store, phase, loaderData, allOrders, pageInfo, selectedOrderId,
                 selectedOrderIds, exportPopoverActive, fetcherState, fetcherData,
                 inflight, loads, history, startupVars>>

CallGetStatusBadge ==
  /\ last.event = "call" /\ last.fn = "getStatusBadge"
  /\ last' = [event |-> "getStatusBadge", alert |-> FALSE, csv |-> <<>>,
              status |-> last.status, result |-> getStatusBadge(last.status)]
  /\ UNCHANGED <<store, phase, loaderData, allOrders, pageInfo, selectedOrderId,
                 selectedOrderIds, exportPopoverActive, fetcherState, fetcherData,
                 inflight, loads, history, startupVars>>

CallGetFulfillmentBadge ==
  /\ last.event = "call" /\ last.fn = "getFulfillmentBadge"
  /\ last' = [event |-> "getFulfillmentBadge", alert |-> FALSE, csv |-> <<>>,
              status |-> last.status, result |-> getFulfillmentBadge(last.status)]
  /\ UNCHANGED <<store, phase, loaderData, allOrders, pageInfo, selectedOrderId,
                 selectedOrderIds, exportPopoverActive, fetcherState, fetcherData,
                 inflight, loads, history, startupVars>>

CsvNext ==
  \/ CallExportOrdersSummary
  \/ CallExportOrdersWithLineItems
  \/ CallArrayToCSV
  \/ CallEscapeCSVField
  \/ CallGetStatusBadge
  \/ CallGetFulfillmentBadge

CsvSpec == CsvInit /\ [][CsvNext]_vars

(***************************************************************************)
(* The startup script run on its own.  The environment decides whether     *)
(* /data and the database file exist, when and with which code a child     *)
(* exits, whether a spawn fails, and whether a child is still running when *)
(* its timer fires.  The page stays as constructed.                        *)
(***************************************************************************)
pageVars == <<store, phase, loaderData, allOrders, pageInfo, selectedOrderId,
              selectedOrderIds, exportPopoverActive, fetcherState, fetcherData,
              inflight, loads, history, last>>

\* exit codes of a child that ends by itself
ExitCodes == {0, 1}

StartupInit ==
  /\ PageInit /\ store = 0 /\ last = Step("init")
  /\ dataDir \in BOOLEAN
  /\ dbExists \in (IF dataDir THEN BOOLEAN ELSE {FALSE})
  /\ pc = "start"
  /\ children = [c \in Commands |-> NoChild]

\* exec(command): spawn the child, arm the 2 minute timer, return the promise
exec(command) ==
  [children EXCEPT ![command] =
     [proc |-> "running", code |-> <<>>, killed |-> FALSE, timer |-> "armed",
      promise |-> "pending", spawned |-> @.spawned + 1]]

\* the promise of the awaited exec call is settled
Settled(command) == children[command].promise \in {"resolved", "rejected"}

\* lines 16-40: mkdir /data if missing, then exec prisma generate in either branch
SetupDatabase ==
  /\ pc = "start"
  /\ dataDir' = TRUE
  /\ children' = exec("npx prisma generate")
  /\ pc' = "generate"
  /\ UNCHANGED <<dbExists, pageVars>>

\* variant: the migration is run whatever became of prisma generate
AfterGenerate_AlwaysMigrates ==
  /\ pc = "generate"
  /\ Settled("npx prisma generate")
  /\ children' = exec("npx prisma migrate deploy")
  /\ pc' = "migrate"
  /\ UNCHANGED <<dataDir, dbExists, pageVars>>

\* await exec('npx prisma generate') returns or throws: the script goes on to the
\* migration (database missing, generate succeeded) or leaves the try / catch
AfterGenerate ==
  /\ pc = "generate"
  /\ Settled("npx prisma generate")
  /\ IF children["npx prisma generate"].promise = "resolved" /\ ~dbExists
     THEN /\ children' = exec("npx prisma migrate deploy")
          /\ pc' = "migrate"
     ELSE /\ pc' = "launch"
          /\ UNCHANGED children
  /\ UNCHANGED <<dataDir, dbExists, pageVars>>

\* await exec('npx prisma migrate deploy') returns or throws
AfterMigrate ==
  /\ pc = "migrate"
  /\ Settled("npx prisma migrate deploy")
  /\ pc' = "launch"
  /\ UNCHANGED <<dataDir, dbExists, children, pageVars>>

\* await exec(process.argv.slice(2).join(' '))
Launch ==
  /\ pc = "launch"
  /\ children' = exec("application")
  /\ pc' = "application"
  /\ UNCHANGED <<dataDir, dbExists, pageVars>>

\* the launch promise settles: the script ends, or dies of the rejection
AfterApplication ==
  /\ pc = "application"
  /\ Settled("application")
  /\ pc' = IF children["application"].promise = "resolved" THEN "done" ELSE "crashed"
  /\ UNCHANGED <<dataDir, dbExists, children, pageVars>>

\* child.on('exit'): clearTimeout, resolve on code 0, reject otherwise; a settled
\* promise stays as it is.  A killed child exits with code null.
ChildExit(command, code) ==
  /\ children[command].proc = "running"
  /\ children' =
       [children EXCEPT ![command] =
          [@ EXCEPT !.proc = "exited",
                    !.code = IF children[command].killed THEN <<>> ELSE <<code>>,
                    !.timer = IF @ = "armed" THEN "cleared" ELSE @,
                    !.promise = IF @ # "pending" THEN @
                                ELSE IF ~children[command].killed /\ code = 0
                                THEN "resolved" ELSE "rejected"]]
  /\ UNCHANGED <<dataDir, dbExists, pc, pageVars>>

\* child.on('error'): the child could not be spawned; clearTimeout, reject
ChildError(command) ==
  /\ children[command].proc = "running"
  /\ children[command].timer = "armed"
  /\ children' =
       [children EXCEPT ![command] =
          [@ EXCEPT !.proc = "failed", !.timer = "cleared", !.promise = "rejected"]]
  /\ UNCHANGED <<dataDir, dbExists, pc, pageVars>>

\* the setTimeout callback, 2 minutes after exec: child.kill('SIGKILL'), reject
Timeout(command) ==
  /\ children[command].timer = "armed"
  /\ children' =
       [children EXCEPT ![command] =
          [@ EXCEPT !.timer = "fired", !.killed = TRUE, !.promise = "rejected"]]
  /\ UNCHANGED <<dataDir, dbExists, pc, pageVars>>

StartupNext ==
  \/ SetupDatabase
  \/ AfterGenerate
  \/ AfterMigrate
  \/ Launch
  \/ AfterApplication
  \/ \E command \in Commands, code \in ExitCodes : ChildExit(command, code)
  \/ \E command \in Commands : ChildError(command)
  \/ \E command \in Commands : Timeout(command)

StartupSpec == StartupInit /\ [][StartupNext]_vars

\* the event loop runs the script's code once the awaited promise is settled, and
\* a timer that is not cleared fires; a child may run for ever
StartupFairSpec ==
  /\ StartupSpec
  /\ WF_vars(SetupDatabase)
  /\ WF_vars(AfterGenerate)
  /\ WF_vars(AfterMigrate)
  /\ WF_vars(Launch)
  /\ \A command \in Commands : WF_vars(Timeout(command))

(***************************************************************************)
(* Steps and views the properties speak about.                             *)
(***************************************************************************)
\* the step in which the action's answer to a load-more reaches the page
ResponseStep ==
  last'.event = "ActionResponse" /\ inflight # <<>> /\ inflight' = Tail(inflight)

\* the step in which the user clicks Load More
ClickStep == last'.event = "ClickLoadMore" /\ last.event # "ClickLoadMore"

\* the step in which an Export Selected handler runs
ExportSelectedStep == last'.event = "ExportSelected"

\* the state of the page controller
View ==
  CASE phase = "idle" -> "Idle"
    [] phase = "loading" -> "LoadingInitial"
    [] ErrorView -> "LoadError"
    [] EmptyView -> "Empty"
    [] LoadedView /\ isLoadingMore -> "LoadingMore"
    [] LoadedView -> "Loaded"
    [] OTHER -> "Crashed"

\* the values of a sequence
Range(seq) == {seq[i] : i \in 1..Len(seq)}

(***************************************************************************)
(* C1.  The accumulated list is the initial page followed by the orders of *)
(* the successful load-more responses in arrival order (nothing removed,   *)
(* reordered or de-duplicated, so its length is the sum of the page        *)
(* sizes), and pageInfo is the pageInfo of the last successful response.   *)
(***************************************************************************)
C1_AccumulatedIsConcatenation ==
  phase = "mounted" =>
    /\ allOrders = history.initial \o history.arrived
    /\ Len(allOrders) = Len(history.initial) + Len(history.arrived)
    /\ pageInfo = history.good

\* two pages have been appended to a non-empty initial page
C1_Witness ==
  /\ phase = "mounted"
  /\ history.initial # <<>>
  /\ Len(history.arrived) > Len(history.initial)
  /\ fetcherData # <<>> /\ fetcherData[1].error = <<>>

C3_NoConcurrentAppend ==
  [][(ResponseStep /\ fetcherData'[1].error = <<>>) => Len(inflight) = 1]_vars

\* the second load-more of a visit has appended its page
C3_Witness ==
  /\ last.event = "ActionResponse"
  /\ loads = 2
  /\ fetcherData[1].error = <<>>
  /\ Len(allOrders) > Len(history.initial)

(***************************************************************************)
(* C4.  At most one load-more request is in flight, and while one is, the  *)
(* Load More button shows as loading and takes no click.                   *)
(***************************************************************************)
C4_AtMostOneInFlight ==
  /\ Len(inflight) <= 1
  /\ inflight # <<>> => (isLoadingMore /\ ~LoadMoreClickable)

\* a request is outstanding while the button is rendered and more loads are allowed
C4_Witness ==
  /\ Len(inflight) = 1
  /\ LoadMoreRendered
  /\ loads < MaxLoads

(***************************************************************************)
(* C5.  In the table view Load More is rendered exactly while              *)
(* pageInfo.hasNextPage is true; a click on it submits one request whose   *)
(* cursor is the current pageInfo.endCursor; and a request is only ever    *)
(* submitted by such a click, with hasNextPage true.                       *)
(***************************************************************************)
C5_LoadMoreFollowsPageInfo ==
  /\ [](LoadedView => (LoadMoreRendered <=> pageInfo.hasNextPage))
  /\ [][/\ ClickStep =>
              /\ pageInfo.hasNextPage
              /\ Len(inflight') = Len(inflight) + 1
              /\ inflight'[Len(inflight')].after = pageInfo.endCursor
        /\ Len(inflight') > Len(inflight) =>
              /\ ClickStep
              /\ pageInfo.hasNextPage]_vars

\* a load-more request carrying the end cursor of the current page is in flight
C5_Witness ==
  /\ last.event = "ClickLoadMore"
  /\ inflight # <<>>
  /\ inflight[1].after = pageInfo.endCursor
  /\ pageInfo.endCursor # NoCursor

(***************************************************************************)
(* C6.  The pagination arguments the API executes are the cursor and page  *)
(* size that loader / action passed as variables.                          *)
(***************************************************************************)
C6_ExecutedArgsAreTheVariables ==
  history.call # <<>> => history.call[1].executed = history.call[1].variables

(***************************************************************************)
(* C7.  Loader and action never throw: every outcome of authentication,    *)
(* transport and decoding yields a result.  A non-success status or an     *)
(* errors array yields a failure (error set, orders empty, pageInfo        *)
(* empty); a decoded body without errors yields a success carrying the     *)
(* decoded orders and pageInfo.                                            *)
(***************************************************************************)
\* the result r is the one the claim prescribes for outcome o of a fetch
\* that passed variables v
ResultFits(r, o, v) ==
  /\ (o.status # 200 \/ o.kind = "graphqlErrors") =>
        (r.error # <<>> /\ r.orders = <<>> /\ r.pageInfo = EmptyPageInfo)
  /\ o.kind = "badJson" => r.error # <<>>
  /\ o.kind = "data" =>
        /\ r.error = <<>> /\ r.success = "true"
        /\ r.orders = ExecuteQuery(GET_ORDERS, v, store).orders
        /\ r.pageInfo = ExecuteQuery(GET_ORDERS, v, store).pageInfo
  /\ o.kind = "noData" =>
        (r.error = <<>> /\ r.success = "true" /\ r.orders = <<>> /\ r.pageInfo = EmptyPageInfo)

C7_FetchNeverThrows ==
  /\ phase # "crashed"
  /\ loaderData # <<>> => ResultFits(loaderData[1], history.loaderCause[1], LoaderVariables)
  /\ fetcherData # <<>> =>
       ResultFits(fetcherData[1], history.actionCause[1],
                  ActionVariables(LoadMoreForm(history.before[1].pageInfo)))

\* the page is mounted on the result of a loader run whose authentication redirected
C7_Witness ==
  /\ phase = "mounted"
  /\ history.loaderCause # <<>>
  /\ history.loaderCause[1].kind = "authRedirect"
  /\ loaderData[1].error # <<>>

(***************************************************************************)
(* C8.  A result is flagged authError exactly when the authentication      *)
(* helper redirected; a transport failure or an errors payload is never    *)
(* flagged authError, whatever its text.                                   *)
(***************************************************************************)
C8_AuthErrorIffRedirect ==
  /\ loaderData # <<>> =>
       (loaderData[1].authError <=> history.loaderCause[1].kind = "authRedirect")
  /\ fetcherData # <<>> =>
       (fetcherData[1].authError <=> history.actionCause[1].kind = "authRedirect")

(***************************************************************************)
(* C9.  The controller moves Idle -> Loading(initial) -> Loaded |          *)
(* LoadError (or the empty page); from Loaded a load-more goes to          *)
(* Loading(more) and back to Loaded; a load-more never leads to the        *)
(* full-page error or the empty page and never replaces loaded data; and   *)
(* load-more, selection and export happen only in Loaded.  (Leaving the    *)
(* page by a reload or re-authentication restarts the machine.)            *)
(***************************************************************************)
C9_StateMachine ==
  [][/\ View = "Idle" => View' \in {"Idle", "LoadingInitial"}
     /\ View = "LoadingInitial" =>
          View' \in {"LoadingInitial", "Loaded", "LoadError", "Empty"}
     /\ View = "Loaded" => View' \in {"Loaded", "LoadingMore", "LoadingInitial"}
     /\ View = "LoadingMore" => View' \in {"LoadingMore", "Loaded", "LoadingInitial"}
     /\ View = "LoadError" => View' \in {"LoadError", "LoadingInitial", "Idle"}
     /\ View = "Empty" => View' \in {"Empty", "LoadingInitial"}
     /\ (phase = "mounted" /\ phase' = "mounted") =>
          (Len(allOrders) <= Len(allOrders')
             /\ SubSeq(allOrders', 1, Len(allOrders)) = allOrders)
     /\ last'.event \in {"ClickLoadMore", "ToggleOrder", "SelectAll", "ExportSelected",
                         "ExportAll"} =>
          View \in {"Loaded", "LoadingMore"}]_vars

(***************************************************************************)
(* C10.  Export Selected (Detailed or Summary) with no accumulated order   *)
(* selected shows the validation message, writes no CSV and changes        *)
(* neither the accumulated list, pageInfo, the selection, the detail       *)
(* pointer nor the popover; with a selection it writes the selected        *)
(* orders, and only those, in the requested format.                        *)
(***************************************************************************)
C10_ExportSelectedNeedsSelection ==
  [][ExportSelectedStep =>
       IF \A i \in 1..Len(allOrders) : allOrders[i] \notin Range(selectedOrderIds)
       THEN /\ last'.alert
            /\ last'.csv = <<>>
            /\ allOrders' = allOrders
            /\ pageInfo' = pageInfo
            /\ selectedOrderIds' = selectedOrderIds
            /\ selectedOrderId' = selectedOrderId
            /\ exportPopoverActive' = exportPopoverActive
       ELSE /\ ~last'.alert
            /\ Len(last'.csv) = 1
            /\ last'.csv[1].orders =
                 SelectSeq(allOrders, LAMBDA id : id \in Range(selectedOrderIds))
            /\ Range(last'.csv[1].orders) = Range(selectedOrderIds)]_vars

\* an Export Selected handler has just refused to export an empty selection
C10_Witness ==
  /\ last.event = "ExportSelected"
  /\ last.alert
  /\ selectedOrderIds = <<>>
  /\ Len(allOrders) > 1

(***************************************************************************)
(* C11.  Export All writes every order of the accumulated list, in         *)
(* accumulation order, in the detailed format, whatever the selection      *)
(* (empty, partial or full), and changes neither the selection nor the     *)
(* accumulated list.                                                       *)
(***************************************************************************)
C11_ExportAllIgnoresSelection ==
  [][last'.event = "ExportAll" =>
       /\ ~last'.alert
       /\ last'.csv # <<>>
       /\ last'.csv[1].mode = "detailed"
       /\ last'.csv[1].orders = allOrders
       /\ selectedOrderIds' = selectedOrderIds
       /\ allOrders' = allOrders]_vars

\* Export All has just run over two pages while only some rows were selected
C11_Witness ==
  /\ last.event = "ExportAll"
  /\ selectedOrderIds # <<>>
  /\ \E i \in 1..Len(allOrders) : allOrders[i] \notin Range(selectedOrderIds)
  /\ Len(allOrders) > QueryFirst
  /\ Len(last.csv[1].orders) = Len(allOrders)

(***************************************************************************)
(* A standard CSV reader (RFC 4180): fields separated by commas, records   *)
(* by newlines; a field in double quotes may hold commas, newlines and     *)
(* doubled double quotes.  ReadCSV gives the records of a text, each a     *)
(* sequence of field strings.                                              *)
(***************************************************************************)
RECURSIVE ReadBare(_, _, _)
\* the rest of a field up to the next separator
ReadBare(text, i, field) ==
  IF i > Len(text) \/ text[i] \in {Comma, Newline}
  THEN [field |-> field, next |-> i]
  ELSE ReadBare(text, i + 1, Append(field, text[i]))

RECURSIVE ReadQuoted(_, _, _)
\* a field after its opening quote: "" is a quote, a single quote closes it
ReadQuoted(text, i, field) ==
  IF i > Len(text) THEN [field |-> field, next |-> i]
  ELSE IF text[i] # Quote THEN ReadQuoted(text, i + 1, Append(field, text[i]))
  ELSE IF i < Len(text) /\ text[i + 1] = Quote
       THEN ReadQuoted(text, i + 2, Append(field, Quote))
       ELSE ReadBare(text, i + 1, field)

ReadField(text, i) ==
  IF i <= Len(text) /\ text[i] = Quote THEN ReadQuoted(text, i + 1, <<>>)
  ELSE ReadBare(text, i, <<>>)

RECURSIVE ReadRecord(_, _, _)
\* the fields from position i to the end of the record
ReadRecord(text, i, record) ==
  LET f == ReadField(text, i)
  IN  IF f.next <= Len(text) /\ text[f.next] = Comma
      THEN ReadRecord(text, f.next + 1, Append(record, f.field))
      ELSE [record |-> Append(record, f.field), next |-> f.next]

RECURSIVE ReadRecords(_, _, _)
ReadRecords(text, i, records) ==
  IF i > Len(text) THEN records
  ELSE LET r == ReadRecord(text, i, <<>>)
       IN  ReadRecords(text, r.next + 1, Append(records, r.record))

ReadCSV(text) == ReadRecords(text, 1, <<>>)

\* the records of a downloaded file, read after its byte-order mark
FileRecords(file) == ReadCSV(Tail(file.text))

\* the column of a header in a header row
Column(headers, header) == CHOOSE i \in 1..Len(headers) : headers[i] = header

(***************************************************************************)
(* C12.  In a Loaded state, Select All followed at once by Export Selected *)
(* (Summary) writes a summary CSV with exactly one data row per order of   *)
(* the accumulated list, in accumulation order.                            *)
(***************************************************************************)
C12_SelectAllThenSummary ==
  [][(/\ last.event = "SelectAll"
      /\ selectedOrderIds # <<>>
      /\ last'.event = "ExportSelected"
      /\ last'.csv # <<>>
      /\ last'.csv[1].mode = "summary")
     => \E records \in {FileRecords(Download(last'.csv[1]))} :
            /\ Len(records) = 1 + Len(allOrders)
            /\ records[1] = [i \in 1..Len(SummaryHeaders) |-> <<SummaryHeaders[i]>>]
            /\ \A i \in 1..Len(allOrders) :
                 /\ Len(records[i + 1]) = Len(SummaryHeaders)
                 /\ records[i + 1][Column(SummaryHeaders, "Order Name")]
                      = Node(allOrders[i]).name.chars]_vars

\* the summary of two loaded pages has just been written after Select All
C12_Witness ==
  /\ last.event = "ExportSelected"
  /\ last.csv # <<>>
  /\ last.csv[1].mode = "summary"
  /\ selectedOrderIds = allOrders
  /\ Len(allOrders) > QueryFirst
  /\ Len(FileRecords(Download(last.csv[1]))) = 1 + Len(allOrders)

\* the rows the detailed export owes an order: one per line item, at least one
RowsOwed(order) == IF Len(order.lineItems.edges) > 1 THEN Len(order.lineItems.edges) ELSE 1

RECURSIVE RowsBefore(_, _)
\* the rows owed to the orders before the k-th
RowsBefore(orders, k) ==
  IF k <= 1 THEN 0 ELSE RowsBefore(orders, k - 1) + RowsOwed(orders[k - 1])

(***************************************************************************)
(* C13.  The detailed export writes, for each order in input order, one    *)
(* row per line item in line-item order, and for an order without line     *)
(* items exactly one row whose seven item columns are empty; the number of *)
(* data rows is the sum over the orders of max(1, number of line items).   *)
(***************************************************************************)
C13_DetailedRowPerLineItem ==
  last.event = "exportOrdersWithLineItems" =>
    \E records \in {FileRecords(last.result)}, orders \in {Nodes(last.csv[1].orders)} :
      /\ Len(records) = 1 + RowsBefore(orders, Len(orders) + 1)
      /\ \A k \in 1..Len(orders) :
           LET edges == orders[k].lineItems.edges
               first == 1 + RowsBefore(orders, k)
           IN  /\ \A j \in 1..RowsOwed(orders[k]) :
                    /\ Len(records[first + j]) = Len(DetailedHeaders)
                    /\ records[first + j][Column(DetailedHeaders, "Order Name")]
                         = orders[k].name.chars
               /\ \A j \in 1..Len(edges) :
                    /\ records[first + j][Column(DetailedHeaders, "Product Name")]
                         = edges[j].name.chars
                    /\ records[first + j][Column(DetailedHeaders, "Quantity")]
                         = Digits(edges[j].quantity.value)
               /\ edges = <<>> =>
                    \A i \in 1..Len(ItemHeaders) :
                      records[first + 1][Column(DetailedHeaders, ItemHeaders[i])] = <<>>

\* a detailed export of an order without line items and an order with two
C13_Witness ==
  /\ last.event = "exportOrdersWithLineItems"
  /\ Len(last.csv[1].orders) = 2
  /\ Node(last.csv[1].orders[1]).lineItems.edges = <<>>
  /\ Len(Node(last.csv[1].orders[2]).lineItems.edges) = 2
  /\ Len(FileRecords(last.result)) = 4

RECURSIVE QuantitySum(_)
\* the sum of the quantities of a sequence of line items
QuantitySum(edges) ==
  IF edges = <<>> THEN 0 ELSE Head(edges).quantity.value + QuantitySum(Tail(edges))

\* the number of distinct line items of a sequence of line items
DistinctLineItems(edges) == Cardinality({edges[i].id : i \in 1..Len(edges)})

(***************************************************************************)
(* C14.  The summary export writes exactly one row per order, in input     *)
(* order; Total Items is the sum of the quantities of the order's line     *)
(* items (0 without line items) and Unique Products is the number of the   *)
(* order's distinct line items.                                            *)
(***************************************************************************)
C14_SummaryRowPerOrder ==
  last.event = "exportOrdersSummary" =>
    \E records \in {FileRecords(last.result)}, orders \in {Nodes(last.csv[1].orders)} :
      /\ Len(records) = 1 + Len(orders)
      /\ \A k \in 1..Len(orders) :
           /\ Len(records[k + 1]) = Len(SummaryHeaders)
           /\ records[k + 1][Column(SummaryHeaders, "Order Name")] = orders[k].name.chars
           /\ records[k + 1][Column(SummaryHeaders, "Total Items")]
                = Digits(QuantitySum(orders[k].lineItems.edges))
           /\ records[k + 1][Column(SummaryHeaders, "Unique Products")]
                = Digits(DistinctLineItems(orders[k].lineItems.edges))

\* a summary of an order with two line items of one product and an order with none
C14_Witness ==
  /\ last.event = "exportOrdersSummary"
  /\ Len(last.csv[1].orders) = 2
  /\ LET edges == Node(last.csv[1].orders[1]).lineItems.edges
     IN  Len(edges) = 2 /\ edges[1].product = edges[2].product /\ QuantitySum(edges) > 9
  /\ Node(last.csv[1].orders[2]).lineItems.edges = <<>>
  /\ FileRecords(last.result)[3][Column(SummaryHeaders, "Total Items")] = <<"0">>

\* the number of double quotes in a string
Quotes(s) == Cardinality({i \in 1..Len(s) : s[i] = Quote})

\* the string a field value stands for: nothing for null / undefined
FieldText(field) == IF IsNullish(field) THEN <<>> ELSE String(field)

Occurrences(text, c) == Cardinality({i \in 1..Len(text) : text[i] = c})

OccurrencesInFields(records, c) ==
  Cardinality({p \in UNION {UNION {{<<i, j, k>> : k \in 1..Len(records[i][j])}
                                     : j \in 1..Len(records[i])}
                             : i \in 1..Len(records)}
                 : records[p[1]][p[2]][p[3]] = c})

\* content is the header row and n rows of one field per header, separated by
\* single newlines and commas, nothing after the last field
CsvShape(content, headers, n) ==
  \E records \in {ReadCSV(content)} :
    /\ Len(records) = 1 + n
    /\ records[1] = [j \in 1..Len(headers) |-> <<headers[j]>>]
    /\ \A i \in 1..Len(records) : Len(records[i]) = Len(headers)
    /\ content[1] = Quote /\ content[Len(content)] = Quote
    /\ Occurrences(content, Newline) = n + OccurrencesInFields(records, Newline)
    /\ Occurrences(content, Comma)
         = (1 + n) * (Len(headers) - 1) + OccurrencesInFields(records, Comma)

(***************************************************************************)
(* C16.  The CSV text is the header row followed by one row per record in  *)
(* input order, rows separated by a newline with nothing after the last    *)
(* row, every row with exactly one field per header in header order (15    *)
(* columns detailed, 10 columns summary); no records give a header-only    *)
(* text, and the downloaded file is the text after a byte-order mark.      *)
(***************************************************************************)
C16_CsvLayout ==
  /\ last.event = "arrayToCSV" =>
       /\ CsvShape(last.result, last.headers, Len(last.data))
       /\ \E records \in {ReadCSV(last.result)} :
            \A i \in 1..Len(last.data) : \A j \in 1..Len(last.headers) :
              records[i + 1][j] = FieldText(Property(last.data[i], last.headers[j]))
  /\ last.event = "exportOrdersWithLineItems" =>
       /\ Len(DetailedHeaders) = 15
       /\ Head(last.result.text) = BOM
       /\ CsvShape(Tail(last.result.text), DetailedHeaders,
                   RowsBefore(Nodes(last.csv[1].orders), Len(last.csv[1].orders) + 1))
       /\ last.result.text =
            <<BOM>> \o arrayToCSV(detailedData(Nodes(last.csv[1].orders)), DetailedHeaders)
  /\ last.event = "exportOrdersSummary" =>
       /\ Len(SummaryHeaders) = 10
       /\ Head(last.result.text) = BOM
       /\ CsvShape(Tail(last.result.text), SummaryHeaders, Len(last.csv[1].orders))
       /\ last.result.text =
            <<BOM>> \o arrayToCSV(summaryData(Nodes(last.csv[1].orders)), SummaryHeaders)

\* rows with a missing and a null property have been written under two headers
C16_Witness ==
  /\ last.event = "arrayToCSV"
  /\ Len(last.data) = 2
  /\ Len(last.headers) = 2
  /\ \E i \in 1..2 : "A" \notin DOMAIN last.data[i]
  /\ \E i \in 1..2 : last.data[i]["B"] = Null
  /\ Len(ReadCSV(last.result)) = 3

(***************************************************************************)
(* C17.  In every reachable state every identifier of the selection is the *)
(* identifier of an order present in the accumulated order list.           *)
(***************************************************************************)
C17_SelectionWithinAccumulated ==
  \A i \in 1..Len(selectedOrderIds) : Includes(allOrders, selectedOrderIds[i])

\* a row has been checked after a second page was appended
C17_Witness ==
  /\ last.event = "ToggleOrder"
  /\ selectedOrderIds # <<>>
  /\ Len(allOrders) > QueryFirst
  /\ history.arrived # <<>>

(***************************************************************************)
(* C18.  The selection is a set: it never holds the same order identifier  *)
(* twice, so the displayed count of selected orders (the length of         *)
(* selectedOrderIds) is the number of distinct selected orders.            *)
(***************************************************************************)
C18_SelectionIsASet ==
  /\ \A i, j \in 1..Len(selectedOrderIds) :
       i # j => selectedOrderIds[i] # selectedOrderIds[j]
  /\ Len(selectedOrderIds) = Cardinality(Range(selectedOrderIds))

(***************************************************************************)
(* C19.  Select All, when it checks, sets the selection to the identifiers *)
(* of every order of the accumulated list, across all pages loaded so far  *)
(* and whatever was selected before; when it unchecks, it sets the         *)
(* selection to empty.  The header checkbox checks unless all orders are   *)
(* selected.                                                               *)
(***************************************************************************)
C19_SelectAllSelectsEveryPage ==
  [][last'.event = "SelectAll" =>
       /\ allOrders' = allOrders
       /\ ~allSelected =>
            /\ selectedOrderIds' = allOrders
            /\ Range(selectedOrderIds') = Range(allOrders)
       /\ allSelected => selectedOrderIds' = <<>>]_vars

\* Select All has checked every order of two pages
C19_Witness ==
  /\ last.event = "SelectAll"
  /\ selectedOrderIds = allOrders
  /\ Len(allOrders) > QueryFirst
  /\ Len(history.arrived) > 0

(***************************************************************************)
(* C20.  A successful load-more leaves the selection unchanged, and every  *)
(* order it appends is shown unselected right after the append.            *)
(***************************************************************************)
C20_AppendedOrdersUnselected ==
  [][(ResponseStep /\ Len(allOrders') > Len(allOrders)) =>
       /\ selectedOrderIds' = selectedOrderIds
       /\ \A i \in (Len(allOrders) + 1)..Len(allOrders') :
            ~isSelected(selectedOrderIds', allOrders'[i])]_vars

(***************************************************************************)
(* C21.  Toggling the checkbox of one order adds its identifier to the     *)
(* selection when it checks and removes it when it unchecks, and changes   *)
(* the selected / unselected status of no other order, nor the accumulated *)
(* list, pageInfo or the detail pointer.                                   *)
(***************************************************************************)
C21_ToggleChangesOneOrder ==
  [][last'.event = "ToggleOrder" =>
       /\ \E orderId \in Range(allOrders) :
            /\ isSelected(selectedOrderIds', orderId) = ~isSelected(selectedOrderIds, orderId)
            /\ ~isSelected(selectedOrderIds, orderId) =>
                 selectedOrderIds' = Append(selectedOrderIds, orderId)
            /\ isSelected(selectedOrderIds, orderId) =>
                 Range(selectedOrderIds') = Range(selectedOrderIds) \ {orderId}
            /\ \A other \in (Range(allOrders) \cup Range(selectedOrderIds)) \ {orderId} :
                 isSelected(selectedOrderIds', other) = isSelected(selectedOrderIds, other)
       /\ allOrders' = allOrders
       /\ pageInfo' = pageInfo
       /\ selectedOrderId' = selectedOrderId]_vars

\* a row has been checked while other orders were selected and a detail panel was open
C21_Witness ==
  /\ last.event = "ToggleOrder"
  /\ Len(selectedOrderIds) > 1
  /\ selectedOrderIds[Len(selectedOrderIds)] \in Rows
  /\ selectedOrderId # NoOrder

PaymentBadges ==
  { <<"PAID", "success", "Paid">>, <<"PENDING", "attention", "Pending">>,
    <<"AUTHORIZED", "info", "Authorized">>, <<"PARTIALLY_PAID", "warning", "Partially Paid">>,
    <<"REFUNDED", "critical", "Refunded">>, <<"VOIDED", "critical", "Voided">> }

FulfillmentBadges ==
  { <<"FULFILLED", "success", "Fulfilled">>, <<"UNFULFILLED", "attention", "Unfulfilled">>,
    <<"PARTIALLY_FULFILLED", "warning", "Partially Fulfilled">>,
    <<"RESTOCKED", "info", "Restocked">> }

\* badge is what table prescribes for status: the row of a recognized code, else a
\* badge without tone whose label is the status itself
BadgeFits(table, status, badge) ==
  IF \E row \in table : status = Str(<<row[1]>>)
  THEN \E row \in table :
         /\ status = Str(<<row[1]>>)
         /\ badge = [status |-> <<row[2]>>, children |-> Str(<<row[3]>>)]
  ELSE badge = [status |-> <<>>, children |-> status]

(***************************************************************************)
(* C23.  The status-to-badge mappings are total: each recognized payment   *)
(* code and fulfillment code maps to its fixed tone and label, and every   *)
(* other code maps to a default-tone badge whose label is the raw code     *)
(* verbatim.                                                               *)
(***************************************************************************)
C23_BadgesTotal ==
  /\ last.event = "getStatusBadge" => BadgeFits(PaymentBadges, last.status, last.result)
  /\ last.event = "getFulfillmentBadge" =>
       BadgeFits(FulfillmentBadges, last.status, last.result)

\* an unrecognized payment code has been given its default badge
C23_Witness ==
  /\ last.event = "getStatusBadge"
  /\ last.status = Str(<<"FOO">>)
  /\ last.result = [status |-> <<>>, children |-> Str(<<"FOO">>)]

(***************************************************************************)
(* C24.  The order API returns, for the cursor it is asked about, the page *)
(* that follows that cursor, without overlap (PageEdges); against it the   *)
(* accumulated order list never holds two entries with the same order      *)
(* identifier, after any sequence of load-mores.                           *)
(***************************************************************************)
C24_NoDuplicateOrders ==
  \A i, j \in 1..Len(allOrders) : i # j => allOrders[i] # allOrders[j]

(***************************************************************************)
(* C25.  The startup script never kills the application it launches: once  *)
(* started, the application runs until it exits on its own, and the launch *)
(* promise settles only on that exit or on a spawn error.                  *)
(***************************************************************************)
C25_ApplicationNeverKilled ==
  /\ ~children["application"].killed
  /\ Settled("application") => children["application"].proc \in {"exited", "failed"}

(***************************************************************************)
(* C27.  prisma migrate deploy runs only when the database file did not    *)
(* exist and only after prisma generate has completed successfully; the    *)
(* application command is launched exactly once, after database setup has  *)
(* finished, whether setup succeeded, failed or timed out.                 *)
(***************************************************************************)
C27_SetupThenLaunchOnce ==
  /\ [](children["npx prisma migrate deploy"].spawned > 0 =>
          /\ ~dbExists
          /\ children["npx prisma generate"].proc = "exited"
          /\ children["npx prisma generate"].code = <<0>>)
  /\ [](children["application"].spawned <= 1)
  /\ [](children["application"].spawned > 0 =>
          /\ Settled("npx prisma generate")
          /\ children["npx prisma migrate deploy"].promise # "pending"
          /\ (~dbExists /\ children["npx prisma generate"].promise = "resolved") =>
               Settled("npx prisma migrate deploy"))
  /\ <>(children["application"].spawned = 1)

\* the application has been launched after a migration that timed out
C27_Witness ==
  /\ children["application"].spawned = 1
  /\ ~dbExists
  /\ children["npx prisma generate"].code = <<0>>
  /\ children["npx prisma migrate deploy"].timer = "fired"
  /\ children["npx prisma migrate deploy"].promise = "rejected"

(***************************************************************************)
(* C26.  In every reachable Loaded state the select-all checkbox is shown  *)
(* checked exactly when every order of the accumulated list is selected,   *)
(* and indeterminate exactly when at least one but not every accumulated   *)
(* order is selected.                                                      *)
(***************************************************************************)
C26_SelectAllCheckboxState ==
  LoadedView =>
    LET every == \A i \in 1..Len(allOrders) : isSelected(selectedOrderIds, allOrders[i])
        one == \E i \in 1..Len(allOrders) : isSelected(selectedOrderIds, allOrders[i])
    IN  /\ allSelected <=> every
        /\ someSelected <=> (one /\ ~every)

====
